---- MODULE Spec2Model ----
(***************************************************************************)
(* Query-time pipeline of the virtual TA (app/core.py, app/api.py,         *)
(* app/utils/image_normalizer.py): handle_query and the pure functions it  *)
(* calls.  Python strings are sequences of one-character strings, so that  *)
(* split, strip and the regular expressions of parse_llm_response are      *)
(* computed character by character.                                        *)
(***************************************************************************)
EXTENDS Integers, Sequences, FiniteSets, TLC

VARIABLES
    genAnswer,   \* parser harness: the answer part of a generated text
    genSources,  \* parser harness: the enumerated (url, text) source lines
    parsed,      \* parser harness: parse_llm_response's result, or NotYet
    aggIn,       \* aggregator harness: the chunks given
    aggOut,      \* aggregator harness: group_and_deduplicate_chunks' result
    fbIn,        \* fallback harness: the chunks given
    fbOut,       \* fallback harness: fallback_links_from_chunks' result
    task,        \* per request: the state of its handle_query task
    loop         \* the request whose task holds the event loop's thread, or Free

parseVars == <<genAnswer, genSources, parsed>>

aggVars == <<aggIn, aggOut>>

fbVars == <<fbIn, fbOut>>

serverVars == <<task, loop>>

NotYet == [pending |-> TRUE]

(***************************************************************************)
(* Strings                                                                 *)
(***************************************************************************)
NL == "\n"

IsSpace(c) == c \in {" ", NL, "\t"}

IsDigit(c) == c \in {"0", "1", "2", "3", "4", "5", "6", "7", "8", "9"}

\* re.IGNORECASE on the letters the patterns of parse_llm_response hold
Lower(c) ==
    CASE c = "U" -> "u" [] c = "R" -> "r" [] c = "L" -> "l" [] c = "T" -> "t"
      [] c = "E" -> "e" [] c = "X" -> "x" [] c = "H" -> "h" [] c = "P" -> "p"
      [] OTHER -> c

\* the first index >= p of s that holds no whitespace (Len(s) + 1 if none)
RECURSIVE SkipWs(_, _)
SkipWs(s, p) == IF p <= Len(s) /\ IsSpace(s[p]) THEN SkipWs(s, p + 1) ELSE p

\* the last index <= p of s that holds no whitespace (0 if none)
RECURSIVE SkipWsBack(_, _)
SkipWsBack(s, p) == IF p >= 1 /\ IsSpace(s[p]) THEN SkipWsBack(s, p - 1) ELSE p

\* str.strip()
Strip(s) == SubSeq(s, SkipWs(s, 1), SkipWsBack(s, Len(s)))

\* s holds lit at index p
MatchAt(s, p, lit) ==
    /\ p + Len(lit) - 1 <= Len(s)
    /\ \A i \in 1..Len(lit) : s[p + i - 1] = lit[i]

\* s holds lit at index p, compared without case (lit is lower case)
MatchAtCI(s, p, lit) ==
    /\ p + Len(lit) - 1 <= Len(s)
    /\ \A i \in 1..Len(lit) : Lower(s[p + i - 1]) = lit[i]

\* the first index >= p where s holds lit, 0 if none
RECURSIVE FindFrom(_, _, _)
FindFrom(s, p, lit) ==
    IF p + Len(lit) - 1 > Len(s) THEN 0
    ELSE IF MatchAt(s, p, lit) THEN p
    ELSE FindFrom(s, p + 1, lit)

\* `lit in s`
Contains(s, lit) == FindFrom(s, 1, lit) # 0

\* str.startswith
StartsWith(s, lit) == MatchAt(s, 1, lit)

\* s.split(sep, 1): one part when sep is absent, else the text before the
\* first occurrence and the text after it
Split1(s, sep) ==
    LET i == FindFrom(s, 1, sep)
    IN  IF i = 0 THEN <<s>>
        ELSE <<SubSeq(s, 1, i - 1), SubSeq(s, i + Len(sep), Len(s))>>

\* s.split("\n"): every line, empty ones included
RECURSIVE SplitLines(_)
SplitLines(s) ==
    LET i == FindFrom(s, 1, <<NL>>)
    IN  IF i = 0 THEN <<s>>
        ELSE <<SubSeq(s, 1, i - 1)>> \o SplitLines(SubSeq(s, i + 1, Len(s)))

\* the end of the run of digits that starts at p (p - 1 if s[p] is no digit)
RECURSIVE DigitsEnd(_, _)
DigitsEnd(s, p) ==
    IF p <= Len(s) /\ IsDigit(s[p]) THEN DigitsEnd(s, p + 1) ELSE p - 1

\* the end of the run of non-whitespace that starts at p
RECURSIVE NonSpaceEnd(_, _)
NonSpaceEnd(s, p) ==
    IF p <= Len(s) /\ ~IsSpace(s[p]) THEN NonSpaceEnd(s, p + 1) ELSE p - 1

\* re.sub(r'^\d+\.\s*', '', line)
StripEnumeration(line) ==
    LET d == DigitsEnd(line, 1)
    IN  IF d >= 1 /\ d + 1 <= Len(line) /\ line[d + 1] = "."
        THEN SubSeq(line, SkipWs(line, d + 2), Len(line))
        ELSE line

\* re.sub(r'^-\s*', '', line)
StripBullet(line) ==
    IF Len(line) >= 1 /\ line[1] = "-"
    THEN SubSeq(line, SkipWs(line, 2), Len(line))
    ELSE line

(***************************************************************************)
(* The regular expressions of parse_llm_response.  A match is a record     *)
(* [ok, grp]: grp is the one capture group of the alternative that         *)
(* matched.  re.search returns the match at the leftmost index where any   *)
(* alternative matches, the alternatives tried in the order written.       *)
(***************************************************************************)
NoMatch == [ok |-> FALSE, grp |-> <<>>]

Matched(g) == [ok |-> TRUE, grp |-> g]

Quote == "\""

\* the last index of s that holds c, 0 if none
RECURSIVE FindLast(_, _, _)
FindLast(s, p, c) ==
    IF p < 1 THEN 0 ELSE IF s[p] = c THEN p ELSE FindLast(s, p - 1, c)

\* URL:\s*\[(.*)\] : the bracketed URL read greedily, to the line's last "]"
UrlBracketedGreedyAt(s, p) ==
    LET q == SkipWs(s, p + 4)
        r == FindLast(s, Len(s), "]")
    IN  IF MatchAtCI(s, p, <<"u", "r", "l", ":">>)
           /\ q <= Len(s) /\ s[q] = "[" /\ r > q
        THEN Matched(SubSeq(s, q + 1, r - 1))
        ELSE NoMatch

\* URL:\s*\[(.*?)\]   (and url:\s*\[(.*?)\], the same under IGNORECASE)
UrlBracketedAt(s, p) ==
    LET q == SkipWs(s, p + 4)
        r == FindFrom(s, q + 1, <<"]">>)
    IN  IF MatchAtCI(s, p, <<"u", "r", "l", ":">>)
           /\ q <= Len(s) /\ s[q] = "[" /\ r # 0
        THEN Matched(SubSeq(s, q + 1, r - 1))
        ELSE NoMatch

\* \[(http[^\]]+)\]
UrlBareBracketAt(s, p) ==
    LET r == FindFrom(s, p + 5, <<"]">>)
    IN  IF p <= Len(s) /\ s[p] = "["
           /\ MatchAtCI(s, p + 1, <<"h", "t", "t", "p">>) /\ r >= p + 6
        THEN Matched(SubSeq(s, p + 1, r - 1))
        ELSE NoMatch

\* URL:\s*(http\S+)   (and url:\s*(http\S+))
UrlLabelledAt(s, p) ==
    LET q == SkipWs(s, p + 4)
        e == NonSpaceEnd(s, q + 4)
    IN  IF MatchAtCI(s, p, <<"u", "r", "l", ":">>)
           /\ MatchAtCI(s, q, <<"h", "t", "t", "p">>) /\ e >= q + 4
        THEN Matched(SubSeq(s, q, e))
        ELSE NoMatch

\* (http\S+)
UrlBareAt(s, p) ==
    LET e == NonSpaceEnd(s, p + 4)
    IN  IF MatchAtCI(s, p, <<"h", "t", "t", "p">>) /\ e >= p + 4
        THEN Matched(SubSeq(s, p, e))
        ELSE NoMatch

UrlMatchAt(s, p) ==
    IF UrlBracketedAt(s, p).ok THEN UrlBracketedAt(s, p)
    ELSE IF UrlBareBracketAt(s, p).ok THEN UrlBareBracketAt(s, p)
    ELSE IF UrlLabelledAt(s, p).ok THEN UrlLabelledAt(s, p)
    ELSE UrlBareAt(s, p)

RECURSIVE UrlSearchFrom(_, _)
UrlSearchFrom(s, p) ==
    IF p > Len(s) THEN NoMatch
    ELSE IF UrlMatchAt(s, p).ok THEN UrlMatchAt(s, p)
    ELSE UrlSearchFrom(s, p + 1)

\* url_match = re.search(r'URL:\s*\[(.*?)\]|...|(http\S+)', line, re.IGNORECASE)
UrlSearch(line) == UrlSearchFrom(line, 1)

\* Text:\s*\[(.*?)\]   (and text:\s*\[(.*?)\])
TextBracketedAt(s, p) ==
    LET q == SkipWs(s, p + 5)
        r == FindFrom(s, q + 1, <<"]">>)
    IN  IF MatchAtCI(s, p, <<"t", "e", "x", "t", ":">>)
           /\ q <= Len(s) /\ s[q] = "[" /\ r # 0
        THEN Matched(SubSeq(s, q + 1, r - 1))
        ELSE NoMatch

\* [\"\"](.*?)[\"\"]
TextQuotedAt(s, p) ==
    LET r == FindFrom(s, p + 1, <<Quote>>)
    IN  IF p <= Len(s) /\ s[p] = Quote /\ r # 0
        THEN Matched(SubSeq(s, p + 1, r - 1))
        ELSE NoMatch

\* Text:\s*\"(.*?)\"   (and text:\s*\"(.*?)\")
TextLabelledQuotedAt(s, p) ==
    LET q == SkipWs(s, p + 5)
        r == FindFrom(s, q + 1, <<Quote>>)
    IN  IF MatchAtCI(s, p, <<"t", "e", "x", "t", ":">>)
           /\ q <= Len(s) /\ s[q] = Quote /\ r # 0
        THEN Matched(SubSeq(s, q + 1, r - 1))
        ELSE NoMatch

TextMatchAt(s, p) ==
    IF TextBracketedAt(s, p).ok THEN TextBracketedAt(s, p)
    ELSE IF TextQuotedAt(s, p).ok THEN TextQuotedAt(s, p)
    ELSE TextLabelledQuotedAt(s, p)

RECURSIVE TextSearchFrom(_, _)
TextSearchFrom(s, p) ==
    IF p > Len(s) THEN NoMatch
    ELSE IF TextMatchAt(s, p).ok THEN TextMatchAt(s, p)
    ELSE TextSearchFrom(s, p + 1)

\* text_match = re.search(r'Text:\s*\[(.*?)\]|...', line, re.IGNORECASE)
TextSearch(line) == TextSearchFrom(line, 1)

(***************************************************************************)
(* parse_llm_response                                                      *)
(***************************************************************************)
HttpPrefix == <<"h", "t", "t", "p">>

SourcesHeading == <<"S", "o", "u", "r", "c", "e", "s", ":">>

\* for heading in ["Source:", "References:", "Reference:"]
AlternateHeadings ==
    << <<"S", "o", "u", "r", "c", "e", ":">>,
       <<"R", "e", "f", "e", "r", "e", "n", "c", "e", "s", ":">>,
       <<"R", "e", "f", "e", "r", "e", "n", "c", "e", ":">> >>

DefaultLinkText ==
    <<"S", "o", "u", "r", "c", "e", " ", "r", "e", "f", "e", "r", "e", "n",
      "c", "e">>

ParseErrorAnswer ==
    <<"E", "r", "r", "o", "r", " ", "p", "a", "r", "s", "i", "n", "g", " ",
      "t", "h", "e", " ", "r", "e", "s", "p", "o", "n", "s", "e", " ", "f",
      "r", "o", "m", " ", "t", "h", "e", " ", "l", "a", "n", "g", "u", "a",
      "g", "e", " ", "m", "o", "d", "e", "l", ".">>

\* a response that is no string (None): response.split raises
NoneResponse == <<"<None>">>

\* parts = response.split("Sources:", 1), else the first alternate heading
\* the response holds
RECURSIVE SplitOnAlternate(_, _)
SplitOnAlternate(response, i) ==
    IF i > Len(AlternateHeadings) THEN <<response>>
    ELSE IF Contains(response, AlternateHeadings[i])
         THEN Split1(response, AlternateHeadings[i])
         ELSE SplitOnAlternate(response, i + 1)

SplitOnHeading(response) ==
    LET parts == Split1(response, SourcesHeading)
    IN  IF Len(parts) = 1 THEN SplitOnAlternate(response, 1) ELSE parts

\* the body of `for line in source_lines`: the citations (none or one) the
\* line contributes
ParseSourceLine(raw) ==
    LET stripped == Strip(raw)
        line == StripBullet(StripEnumeration(stripped))
        um == UrlSearch(line)
        tm == TextSearch(line)
        url == Strip(um.grp)
        text == IF tm.ok /\ tm.grp # <<>> THEN Strip(tm.grp)
                ELSE DefaultLinkText
    IN  IF stripped = <<>> THEN <<>>
        ELSE IF um.ok /\ url # <<>> /\ StartsWith(url, HttpPrefix)
             THEN << [url |-> url, text |-> text] >>
             ELSE <<>>

RECURSIVE ParseSourceLines(_)
ParseSourceLines(lines) ==
    IF lines = <<>> THEN <<>>
    ELSE ParseSourceLine(Head(lines)) \o ParseSourceLines(Tail(lines))

parse_llm_response(response) ==
    IF response = NoneResponse
    THEN [answer |-> ParseErrorAnswer, links |-> <<>>]
    ELSE LET parts == SplitOnHeading(response)
         IN  [answer |-> Strip(parts[1]),
              links |-> IF Len(parts) > 1
                        THEN ParseSourceLines(SplitLines(Strip(parts[2])))
                        ELSE <<>>]

(***************************************************************************)
(* Generated texts in the format the prompt of generate_llm_answer         *)
(* mandates: the answer, a blank line, "Sources:", then one line           *)
(* "N. URL: [url], Text: [text]" per source.                               *)
(***************************************************************************)
MaxSources == 3

DigitChar(n) ==
    CASE n = 0 -> "0" [] n = 1 -> "1" [] n = 2 -> "2" [] n = 3 -> "3"
      [] n = 4 -> "4" [] n = 5 -> "5" [] n = 6 -> "6" [] n = 7 -> "7"
      [] n = 8 -> "8" [] n = 9 -> "9"

\* str(n) for n >= 0
RECURSIVE Decimal(_)
Decimal(n) ==
    IF n < 10 THEN <<DigitChar(n)>>
    ELSE Decimal(n \div 10) \o <<DigitChar(n % 10)>>

\* "N. URL: [url], Text: [text]"
SourceLine(n, src) ==
    Decimal(n) \o <<".", " ", "U", "R", "L", ":", " ", "[">> \o src.url
      \o <<"]", ",", " ", "T", "e", "x", "t", ":", " ", "[">> \o src.text
      \o <<"]">>

RECURSIVE SourceLines(_, _)
SourceLines(srcs, n) ==
    IF n > Len(srcs) THEN <<>>
    ELSE <<NL>> \o SourceLine(n, srcs[n]) \o SourceLines(srcs, n + 1)

MandatedFormat(answer, srcs) ==
    answer \o <<NL, NL>> \o SourcesHeading \o SourceLines(srcs, 1)

AnswerSet ==
    { <<"o", "k">>,
      <<>>,
      <<"o", "k", " ">>,
      <<"a", NL, "b">>,
      <<"S", "o", "u", "r", "c", "e", ":", " ", "m", "e">>,
      <<"i", "n", " ", "S", "o", "u", "r", "c", "e", "s", ":", " ", "x">> }

UrlSet ==
    { <<"h", "t", "t", "p", ":", "/", "/", "a">>,
      <<"h", "t", "t", "p", "s", ":", "/", "/", "b">>,
      <<"h", "t", "t", "p", ":", "/", "/", "a", " ", "b">>,
      <<"a", ".", "i", "o">>,
      <<"H", "T", "T", "P", ":", "/", "/", "A">>,
      <<>>,
      <<" ", "h", "t", "t", "p", ":", "/", "/", "a">>,
      <<"h", "t", "t", "p", ":", "/", "/", "a", "]", "b">>,
      <<"h", "t", "t", "p", ":", "/", "/", "a", Quote, "q", Quote>>,
      <<"h", "t", "t", "p", ":", "/", "/", "t", "?", "t", "e", "x", "t", ":",
        "[", "z">> }

TextSet ==
    { <<"q">>,
      <<"s", "a", "y", " ", Quote, "h", "i", Quote>>,
      <<"a", "[", "b">>,
      <<>>,
      <<" ", "q">>,
      <<"a", "]", "b">> }

SourceSet == [url : UrlSet, text : TextSet]

\* the sources a text's second and later lines are drawn from
MoreSourceSet ==
    { [url |-> <<"h", "t", "t", "p", "s", ":", "/", "/", "b">>,
       text |-> <<"q">>],
      [url |-> <<"h", "t", "t", "p", ":", "/", "/", "a">>,
       text |-> <<"s", "a", "y", " ", Quote, "h", "i", Quote>>],
      [url |-> <<"a", ".", "i", "o">>, text |-> <<"q">>] }

ParseIdle == genAnswer = <<>> /\ genSources = <<>> /\ parsed = NotYet

ParseInit ==
    /\ genAnswer \in AnswerSet
    /\ \E src \in SourceSet : genSources = <<src>>
    /\ parsed = NotYet

\* the model writes one more source line
AddSource ==
    /\ parsed = NotYet
    /\ Len(genSources) < MaxSources
    /\ \E src \in MoreSourceSet : genSources' = Append(genSources, src)
    /\ UNCHANGED <<genAnswer, parsed, aggVars, fbVars, serverVars>>

\* parsed = parse_llm_response(llm_response)
Parse ==
    /\ parsed = NotYet
    /\ parsed' = parse_llm_response(MandatedFormat(genAnswer, genSources))
    /\ UNCHANGED <<genAnswer, genSources, aggVars, fbVars, serverVars>>

(***************************************************************************)
(* Round trip of the mandated format through parse_llm_response            *)
(***************************************************************************)
HasChar(s, chars) == \E i \in 1..Len(s) : s[i] \in chars

\* an answer the split and the strip leave as it is
PlainAnswer(a) == Strip(a) = a /\ ~Contains(a, SourcesHeading)

\* a URL the bracketed pattern captures whole and the parser keeps
PlainUrl(u) ==
    /\ StartsWith(u, HttpPrefix)
    /\ Strip(u) = u
    /\ ~HasChar(u, {"[", "]", Quote, NL})

\* a snippet the bracketed pattern captures whole
PlainText(t) == t # <<>> /\ Strip(t) = t /\ ~HasChar(t, {"]", NL})

PlainSources(srcs) ==
    \A i \in 1..Len(srcs) : PlainUrl(srcs[i].url) /\ PlainText(srcs[i].text)

\* C7 as stated: for every answer, URL and snippet, the mandated format
\* parses back to the answer and to one citation per source line, in line
\* order, the URL and the snippet verbatim.
C7_RoundTripEveryInput ==
    parsed # NotYet => parsed = [answer |-> genAnswer, links |-> genSources]

\* C7 amended: the round trip holds when the answer has no surrounding
\* whitespace and no "Sources:" in it, every URL starts with "http", has no
\* surrounding whitespace and none of [ ] " or a newline, and every snippet is
\* non-empty, has no surrounding whitespace and no ] or newline.
C7_RoundTripPlain ==
    (parsed # NotYet /\ PlainAnswer(genAnswer) /\ PlainSources(genSources))
        => parsed = [answer |-> genAnswer, links |-> genSources]

\* a text of two or more plain source lines has been parsed
C7_Witness ==
    /\ parsed # NotYet
    /\ PlainAnswer(genAnswer) /\ genAnswer # <<>>
    /\ PlainSources(genSources)
    /\ Len(genSources) >= 2
    /\ Len(parsed.links) = Len(genSources)

(***************************************************************************)
(* Chunks: the payload dictionaries of the index.  A key the dictionary    *)
(* lacks reads as None (dict.get); a score is <<>> when the dictionary has *)
(* none, else <<n>>.  id names the dictionary object (its place in the     *)
(* list it arrived in), text values are sequences of characters.           *)
(***************************************************************************)
None == <<"<None>">>

\* Python truthiness of a value read with dict.get
Truthy(v) == v # None /\ v # <<>>

\* a or b
Or(a, b) == IF Truthy(a) THEN a ELSE b

\* the text an f-string writes for a value
Format(v) == IF v = None THEN <<"N", "o", "n", "e">> ELSE v

Discourse == <<"d", "i", "s", "c", "o", "u", "r", "s", "e">>

CourseMaterial ==
    <<"c", "o", "u", "r", "s", "e", "_", "m", "a", "t", "e", "r", "i", "a",
      "l">>

\* key of group_and_deduplicate_chunks: f"discourse_{post_id}",
\* f"course_{filename}" or f"generic_{url or original_url}"
GroupKey(chunk) ==
    IF chunk.source = Discourse
    THEN <<"d", "i", "s", "c", "o", "u", "r", "s", "e", "_">>
           \o Format(chunk.post_id)
    ELSE IF chunk.source = CourseMaterial
    THEN <<"c", "o", "u", "r", "s", "e", "_">> \o Format(chunk.filename)
    ELSE <<"g", "e", "n", "e", "r", "i", "c", "_">>
           \o Format(Or(chunk.url, chunk.original_url))

\* x.get("score", 0)
Score(chunk) == IF chunk.score = <<>> THEN 0 ELSE chunk.score[1]

\* the place a stable descending sort gives x among the sorted chunks: before
\* the first chunk of a smaller score
RECURSIVE InsertPlace(_, _, _)
InsertPlace(sorted, x, i) ==
    IF i > Len(sorted) \/ Score(sorted[i]) < Score(x) THEN i
    ELSE InsertPlace(sorted, x, i + 1)

InsertDescending(sorted, x) ==
    LET i == InsertPlace(sorted, x, 1)
    IN  SubSeq(sorted, 1, i - 1) \o <<x>> \o SubSeq(sorted, i, Len(sorted))

\* list.sort(key=lambda x: x.get("score", 0), reverse=True): stable, chunks
\* of equal score keep the order they have in the list
RECURSIVE SortByScore(_)
SortByScore(chunks) ==
    IF chunks = <<>> THEN <<>>
    ELSE InsertDescending(SortByScore(SubSeq(chunks, 1, Len(chunks) - 1)),
                          chunks[Len(chunks)])

\* s[:n]
Take(s, n) == SubSeq(s, 1, IF n < Len(s) THEN n ELSE Len(s))

\* the keys of `grouped`, in the order the dictionary received them
RECURSIVE GroupKeys(_)
GroupKeys(chunks) ==
    IF chunks = <<>> THEN <<>>
    ELSE LET before == GroupKeys(SubSeq(chunks, 1, Len(chunks) - 1))
             key == GroupKey(chunks[Len(chunks)])
         IN  IF \E i \in 1..Len(before) : before[i] = key THEN before
             ELSE Append(before, key)

\* grouped[key]: the chunks of the key, in input order
Group(chunks, key) == SelectSeq(chunks, LAMBDA c : GroupKey(c) = key)

\* group.sort(...); group[:4]: a group keeping one chunk too many
GroupHeadOfFour(group) == Take(SortByScore(group), 4)

\* group.sort(...); group[:3]
GroupHead(group) == Take(SortByScore(group), 3)

\* final_chunks after the loop over grouped.values()
RECURSIVE ExtendGroups(_, _)
ExtendGroups(chunks, keys) ==
    IF keys = <<>> THEN <<>>
    ELSE GroupHead(Group(chunks, Head(keys))) \o ExtendGroups(chunks, Tail(keys))

group_and_deduplicate_chunks(chunks) ==
    Take(SortByScore(ExtendGroups(chunks, GroupKeys(chunks))), 10)

(***************************************************************************)
(* fallback_links_from_chunks                                              *)
(***************************************************************************)
Ellipsis == <<".", ".", ".">>

\* chunk.get("url") or chunk.get("link") or chunk.get("original_url")
ChunkUrl(chunk) == Or(Or(chunk.url, chunk.link), chunk.original_url)

\* chunk.get("text", "")
ChunkText(chunk) == IF chunk.text = None THEN <<>> ELSE chunk.text

\* `if url:` alone, the test of `seen` left out
IsNewUrlUnseenUnchecked(url, seen) == Truthy(url)

\* if url and url not in seen
IsNewUrl(url, seen) == Truthy(url) /\ url \notin seen

\* the loop of fallback_links_from_chunks from chunk i on
RECURSIVE FallbackFrom(_, _, _, _)
FallbackFrom(chunks, i, seen, links) ==
    IF i > Len(chunks) THEN links
    ELSE LET url == ChunkUrl(chunks[i])
         IN  IF IsNewUrl(url, seen)
             THEN FallbackFrom(chunks, i + 1, seen \cup {url},
                      Append(links,
                             [url |-> url,
                              text |-> Take(ChunkText(chunks[i]), 100)
                                         \o Ellipsis]))
             ELSE FallbackFrom(chunks, i + 1, seen, links)

fallback_links_from_chunks(chunks) == FallbackFrom(chunks, 1, {}, <<>>)

(***************************************************************************)
(* Inputs of the aggregator: every list of up to MaxChunks chunks over     *)
(* three documents (one per source type) and four scores, and each such    *)
(* list followed by PadLength further chunks spread over four documents.   *)
(***************************************************************************)
MaxChunks == 3

PadLength == 13

Post(n) ==
    [id |-> 0, source |-> Discourse, post_id |-> Decimal(n),
     filename |-> None,
     url |-> <<"h", "t", "t", "p", ":", "/", "/", "d", "/">> \o Decimal(n),
     link |-> None, original_url |-> None, text |-> <<"p">> \o Decimal(n),
     score |-> <<>>]

CoursePage ==
    [id |-> 0, source |-> CourseMaterial, post_id |-> None,
     filename |-> <<"f", ".", "m", "d">>, url |-> None, link |-> None,
     original_url |-> None, text |-> <<"c">>, score |-> <<>>]

\* a discourse chunk whose post came with a site-relative URL: the payload's
\* url is the post's, stored as it was read
RelativePost == [Post(2) EXCEPT !.url = <<"/", "t", "/", "2">>]

\* a chunk of neither source type, found by its original_url
Mirror ==
    [id |-> 0, source |-> None, post_id |-> None, filename |-> None,
     url |-> <<>>, link |-> None,
     original_url |-> <<"h", "t", "t", "p", ":", "/", "/", "m">>,
     text |-> <<"m">>, score |-> <<>>]

\* a chunk of neither source type with no URL at all
Bare ==
    [id |-> 0, source |-> None, post_id |-> None, filename |-> None,
     url |-> None, link |-> None, original_url |-> None, text |-> <<>>,
     score |-> <<>>]

ScoreSet == {<<>>, <<-1>>, <<0>>, <<1>>}

Scored(shape, sc) == [shape EXCEPT !.score = sc]

BaseShapes == {Scored(sh, sc) : sh \in {Post(1), CoursePage, Bare}, sc \in ScoreSet}

\* the chunks as list elements: each its own object, named by its place
WithIds(shapes) == [i \in 1..Len(shapes) |-> [shapes[i] EXCEPT !.id = i]]

ShapeLists(n) == UNION {[1..k -> BaseShapes] : k \in 0..n}

\* the i-th chunk of a pad: four documents in rotation
PadShape(i, scored) ==
    LET sh == CASE i % 4 = 0 -> Post(1) [] i % 4 = 1 -> Post(2)
                [] i % 4 = 2 -> CoursePage [] OTHER -> Mirror
    IN  IF scored THEN Scored(sh, <<((i * 7) % 5) - 1>>) ELSE sh

Pad(scored) == [i \in 1..PadLength |-> PadShape(i, scored)]

AggIdle == aggIn = <<>> /\ aggOut = NotYet

AggInit ==
    /\ \E shapes \in ShapeLists(MaxChunks) : aggIn = WithIds(shapes)
    /\ aggOut = NotYet

\* the list grows by a pad
PadChunks ==
    /\ aggOut = NotYet
    /\ Len(aggIn) <= MaxChunks
    /\ \E scored \in BOOLEAN :
         aggIn' = WithIds([i \in 1..(Len(aggIn) + PadLength) |->
                             IF i <= Len(aggIn) THEN aggIn[i]
                             ELSE Pad(scored)[i - Len(aggIn)]])
    /\ UNCHANGED <<aggOut, parseVars, fbVars, serverVars>>

\* grouped_chunks = group_and_deduplicate_chunks(relevant_chunks)
Aggregate ==
    /\ aggOut = NotYet
    /\ aggOut' = [chunks |-> group_and_deduplicate_chunks(aggIn)]
    /\ UNCHANGED <<aggIn, parseVars, fbVars, serverVars>>

(***************************************************************************)
(* The aggregator's output                                                 *)
(***************************************************************************)
Indices(s) == 1..Len(s)

AggDone == aggOut # NotYet

AggResult == aggOut.chunks

\* the first place of the input a chunk of the key has
FirstPlace(chunks, key) ==
    CHOOSE i \in Indices(chunks) :
        /\ GroupKey(chunks[i]) = key
        /\ \A j \in 1..(i - 1) : GroupKey(chunks[j]) # key

AggBounded ==
    /\ Len(AggResult) <= 10
    /\ \A i \in Indices(AggResult) :
         Cardinality({j \in Indices(AggResult) :
                        GroupKey(AggResult[j]) = GroupKey(AggResult[i])}) <= 3

AggFromInput ==
    /\ \A i \in Indices(AggResult) :
         AggResult[i].id \in Indices(aggIn) /\ AggResult[i] = aggIn[AggResult[i].id]
    /\ \A i, j \in Indices(AggResult) : i # j => AggResult[i].id # AggResult[j].id

AggSorted ==
    \A i, j \in Indices(AggResult) : i < j => Score(AggResult[i]) >= Score(AggResult[j])

\* C5 as stated: at most 10 chunks, at most 3 of a group key, each an input
\* chunk, in non-increasing score order (no score counts as 0), and chunks of
\* equal score in their relative input order.
C5_AggregateKeepsInputOrderOnTies ==
    AggDone =>
        /\ AggBounded /\ AggFromInput /\ AggSorted
        /\ \A i, j \in Indices(AggResult) :
             (i < j /\ Score(AggResult[i]) = Score(AggResult[j]))
                 => AggResult[i].id < AggResult[j].id

\* C5 amended: as stated, but chunks of equal score keep their relative input
\* order only within one group key; chunks of equal score and different keys
\* come in the order in which their keys first occur in the input.
C5_AggregateKeepsGroupOrderOnTies ==
    AggDone =>
        /\ AggBounded /\ AggFromInput /\ AggSorted
        /\ \A i, j \in Indices(AggResult) :
             (i < j /\ Score(AggResult[i]) = Score(AggResult[j]))
                 => IF GroupKey(AggResult[i]) = GroupKey(AggResult[j])
                    THEN AggResult[i].id < AggResult[j].id
                    ELSE FirstPlace(aggIn, GroupKey(AggResult[i]))
                           < FirstPlace(aggIn, GroupKey(AggResult[j]))

\* more than 10 chunks of four or more keys went in, one key with more than 3
\* chunks, and 10 came out, two of them of equal score and different keys
C5_Witness ==
    /\ AggDone
    /\ Len(aggIn) > 10 /\ Len(AggResult) = 10
    /\ \E i \in Indices(aggIn) :
         Cardinality({j \in Indices(aggIn) :
                        GroupKey(aggIn[j]) = GroupKey(aggIn[i])}) > 3
    /\ \E i, j \in Indices(AggResult) :
         /\ i < j /\ Score(AggResult[i]) = Score(AggResult[j])
         /\ GroupKey(AggResult[i]) # GroupKey(AggResult[j])

(***************************************************************************)
(* Inputs of the fallback derivation: every list of up to MaxFallbackChunks*)
(* chunks, each with any of its three URL-bearing fields absent, empty or  *)
(* set.                                                                    *)
(***************************************************************************)
MaxFallbackChunks == 3

UrlA == <<"h", "t", "t", "p", ":", "/", "/", "a">>

UrlB == <<"h", "t", "t", "p", ":", "/", "/", "b">>

FallbackShapes ==
    [id : {0}, source : {None}, post_id : {None}, filename : {None},
     url : {None, <<>>, UrlA, UrlB}, link : {None, UrlA},
     original_url : {None, UrlB}, text : {None}, score : {<<>>}]

\* each chunk its own object, its text naming it
Numbered(shapes) ==
    [i \in 1..Len(shapes) |->
        [shapes[i] EXCEPT !.id = i, !.text = <<"t">> \o Decimal(i)]]

FbIdle == fbIn = <<>> /\ fbOut = NotYet

FbInit ==
    /\ \E k \in 0..MaxFallbackChunks :
         \E shapes \in [1..k -> FallbackShapes] : fbIn = Numbered(shapes)
    /\ fbOut = NotYet

\* parsed["links"] = fallback_links_from_chunks(relevant_chunks)
Fallback ==
    /\ fbOut = NotYet
    /\ fbOut' = [links |-> fallback_links_from_chunks(fbIn)]
    /\ UNCHANGED <<fbIn, parseVars, aggVars, serverVars>>

(***************************************************************************)
(* The fallback derivation's output                                        *)
(***************************************************************************)
FbDone == fbOut # NotYet

FbLinks == fbOut.links

\* the URL of a chunk as the claim words it: url, else link, else
\* original_url; None when no field bears one
UrlBorne(chunk) ==
    IF chunk.url # None /\ chunk.url # <<>> THEN chunk.url
    ELSE IF chunk.link # None /\ chunk.link # <<>> THEN chunk.link
    ELSE IF chunk.original_url # None /\ chunk.original_url # <<>>
         THEN chunk.original_url
    ELSE None

\* the first chunk bearing the URL
FirstBearer(chunks, url) ==
    CHOOSE i \in Indices(chunks) :
        /\ UrlBorne(chunks[i]) = url
        /\ \A j \in 1..(i - 1) : UrlBorne(chunks[j]) # url

\* C8: one citation per distinct URL (url, else link, else original_url), in
\* the order of the URLs' first occurrences, chunks bearing no URL skipped,
\* no URL twice.
C8_FallbackFirstSeenOrder ==
    FbDone =>
        /\ \A i \in Indices(fbIn) :
             UrlBorne(fbIn[i]) # None
                 => \E k \in Indices(FbLinks) : FbLinks[k].url = UrlBorne(fbIn[i])
        /\ \A k \in Indices(FbLinks) :
             \E i \in Indices(fbIn) : FbLinks[k].url = UrlBorne(fbIn[i])
        /\ \A k, m \in Indices(FbLinks) :
             k # m => FbLinks[k].url # FbLinks[m].url
        /\ \A k, m \in Indices(FbLinks) :
             k < m => FirstBearer(fbIn, FbLinks[k].url)
                        < FirstBearer(fbIn, FbLinks[m].url)

\* chunks bearing a, b, a came out as the citations a, b
C8_Witness ==
    /\ FbDone
    /\ Len(fbIn) = 3
    /\ UrlBorne(fbIn[1]) = UrlA /\ UrlBorne(fbIn[2]) = UrlB
    /\ UrlBorne(fbIn[3]) = UrlA
    /\ Len(FbLinks) = 2 /\ FbLinks[1].url = UrlA /\ FbLinks[2].url = UrlB

(***************************************************************************)
(* The server: one event loop running one task per request                 *)
(* (query_processor -> handle_query).  A task runs on the loop's thread    *)
(* from one suspension to the next.  The Mistral and Qdrant clients are    *)
(* called synchronously and tenacity's retry sleeps with time.sleep, so a  *)
(* task keeps the thread while it waits for those; only the aiohttp fetch  *)
(* of normalize_image_input suspends it.                                   *)
(***************************************************************************)
Req == {"A", "B"}

Free == "free"

\* request.image: absent, an http URL, a file path, a base64 string
NoImage == ""

UrlImage == "http://i/p.png"

PathImage == "/tmp/p.png"

Base64Image == "cmF3"

Images == {NoImage, UrlImage, PathImage, Base64Image}

\* base64.b64encode(content).decode() of what the URL or the path holds
Encoded(image) == IF image = UrlImage THEN "dXJs" ELSE "cGF0aA=="

Question == <<"w", "h", "e", "n", "?">>

ImageTextHeading ==
    <<NL, NL, "E", "x", "t", "r", "a", "c", "t", "e", "d", " ", "t", "e",
      "x", "t", " ", "f", "r", "o", "m", " ", "a", "t", "t", "a", "c", "h",
      "e", "d", " ", "i", "m", "a", "g", "e", ":", NL>>

NoResultsAnswer ==
    <<"N", "o", " ", "r", "e", "l", "e", "v", "a", "n", "t", " ", "r", "e",
      "s", "u", "l", "t", "s", " ", "f", "o", "u", "n", "d", ".">>

DegradedAnswer ==
    <<"T", "h", "e", " ", "s", "y", "s", "t", "e", "m", " ", "i", "s", " ",
      "c", "u", "r", "r", "e", "n", "t", "l", "y", " ", "o", "v", "e", "r",
      "l", "o", "a", "d", "e", "d", " ", "o", "r", " ", "e", "n", "c", "o",
      "u", "n", "t", "e", "r", "e", "d", " ", "a", "n", " ", "e", "r", "r",
      "o", "r", ".", " ", "P", "l", "e", "a", "s", "e", " ", "t", "r", "y",
      " ", "a", "g", "a", "i", "n", ".">>

\* the text the OCR service reads in an image
OcrText == <<"i", "m", "g">>

\* what the index returns: at most 3 hits (limit=3) of similarity >= 0.7
\* (score_threshold, scores in hundredths), best first, each with its payload
Hit(sc, payload) == [score |-> sc, payload |-> payload]

HitLists ==
    { <<>>,
      <<Hit(90, Post(1))>>,
      <<Hit(80, CoursePage)>>,
      <<Hit(90, RelativePost)>>,
      <<Hit(95, Post(1)), Hit(85, CoursePage), Hit(75, Post(1))>>,
      <<Hit(95, Post(1)), Hit(85, Post(1)), Hit(75, Post(1))>> }

\* what the generative model writes
LlmContents ==
    { MandatedFormat(<<"o", "k">>,
                     << [url |-> Post(1).url, text |-> <<"p", "1">>] >>),
      <<" ", "n", "o", NL>> }

NewTask ==
    [pc |-> "idle", image |-> NoImage, question |-> Question,
     normCalls |-> 0, normFailed |-> FALSE, normalized_image |-> "",
     ocrPhase |-> 0, ocrTry |-> 0, ocrCalls |-> 0, ocrFails |-> 0,
     ocrArgs |-> {},
     vision_text |-> <<>>, extracted_text_from_image |-> <<>>,
     embedCalls |-> 0, searchCalls |-> 0, retrieved |-> FALSE, hits |-> <<>>,
     relevant_chunks |-> <<>>, grouped_chunks |-> <<>>,
     llmTry |-> 0, llmFails |-> 0, llmReply |-> <<>>,
     llm_response |-> <<>>, parsed |-> NotYet, fallbackRan |-> FALSE,
     response |-> NotYet]

ServerIdle == task = [r \in Req |-> NewTask] /\ loop = Free

ServerInit == ServerIdle

\* query_processor's `except Exception`: every exception, an HTTPException's
\* status_code unread, becomes JSONResponse(status_code=500)
query_processor_except(t, exc) ==
    [t EXCEPT !.pc = "done",
              !.response = [status |-> 500, body |-> [error |-> exc.detail]]]

\* query_processor's `return response`
query_processor_return(t, body) ==
    [t EXCEPT !.pc = "done", !.response = [status |-> 200, body |-> body]]

HTTPException(code, detail) ==
    [type |-> "HTTPException", status_code |-> code, detail |-> detail]

ValueError(detail) == [type |-> "ValueError", detail |-> detail]

ServiceError(detail) == [type |-> "Exception", detail |-> detail]

\* _call_ocr_api(base64_img), first attempt
CallOcr(t, phase, base64_img) ==
    [t EXCEPT !.pc = "ocr", !.ocrPhase = phase, !.ocrTry = 1,
              !.ocrCalls = @ + 1, !.ocrArgs = @ \cup {base64_img}]

\* embed_query(text)
CallEmbed(t) == [t EXCEPT !.pc = "embed", !.embedCalls = @ + 1]

\* search_similar_chunks(query_embedding)
CallSearch(t) == [t EXCEPT !.pc = "search", !.searchCalls = @ + 1]

IsUrl(image) == image = UrlImage

\* what normalize_image_input can return or raise for the image: a base64
\* string is returned as given, a URL's or a path's content is encoded (to ""
\* when it is empty), every failure is raised as HTTPException(400)
NormalizeResults(image) ==
    {[raised |-> TRUE, value |-> ""]}
      \cup (IF image = Base64Image
            THEN {[raised |-> FALSE, value |-> image]}
            ELSE {[raised |-> FALSE, value |-> Encoded(image)],
                  [raised |-> FALSE, value |-> ""]})

\* process_multimodal_query from the return of normalize_image_input on
AfterNormalize(t, res) ==
    IF res.raised
    THEN query_processor_except([t EXCEPT !.normFailed = TRUE],
             HTTPException(400, "Image processing failed"))
    ELSE IF res.value = ""
    THEN query_processor_except([t EXCEPT !.normFailed = TRUE],
             ValueError("Invalid image input format or unable to process the image."))
    ELSE CallOcr([t EXCEPT !.normalized_image = res.value], 1, res.value)

\* stop=stop_after_attempt(3) on _call_ocr_api
OcrStop(attempt) == attempt >= 3

\* stop_after_attempt(6) on _call_llm_with_retry
LlmStopAfterSix(attempt) == attempt >= 6

\* stop=stop_after_attempt(5) on _call_llm_with_retry
LlmStop(attempt) == attempt >= 5

\* the return of extract_text_from_image: into process_multimodal_query
\* (text += vision_text; embed_query(text)) or into handle_query
\* (search_similar_chunks)
AfterOcr(t, text) ==
    IF t.ocrPhase = 1
    THEN CallEmbed([t EXCEPT !.vision_text = text])
    ELSE CallSearch([t EXCEPT !.extracted_text_from_image = text])

\* [hit.payload for hit in hits]
Payloads(hits) == WithIds([i \in 1..Len(hits) |-> hits[i].payload])

\* the fallback run whatever the parser found
NeedsFallbackAlways(parsed_) == TRUE

\* if not parsed["links"]: parsed["links"] = fallback_links_from_chunks(...)
NeedsFallback(parsed_) == parsed_.links = <<>>

\* handle_query from the return of generate_llm_answer on
AfterGenerate(t, llm_response) ==
    LET parsed_ == parse_llm_response(llm_response)
        result == IF NeedsFallback(parsed_)
                  THEN [parsed_ EXCEPT
                          !.links = fallback_links_from_chunks(t.relevant_chunks)]
                  ELSE parsed_
    IN  query_processor_return(
            [t EXCEPT !.llm_response = llm_response, !.parsed = parsed_,
                      !.fallbackRan = NeedsFallback(parsed_)],
            result)

\* handle_query without its `if not relevant_chunks: return`
AfterSearchNoEarlyReturn(t, hits) ==
    LET relevant_chunks == Payloads(hits)
    IN  [t EXCEPT !.retrieved = TRUE, !.hits = hits,
                  !.relevant_chunks = relevant_chunks,
                  !.grouped_chunks = group_and_deduplicate_chunks(relevant_chunks),
                  !.pc = "llm", !.llmTry = 1]

\* handle_query from the return of search_similar_chunks on
AfterSearch(t, hits) ==
    LET relevant_chunks == Payloads(hits)
        found == [t EXCEPT !.retrieved = TRUE, !.hits = hits,
                           !.relevant_chunks = relevant_chunks]
    IN  IF relevant_chunks = <<>>
        THEN query_processor_return(found,
                 [answer |-> NoResultsAnswer, links |-> <<>>])
        ELSE [found EXCEPT
                !.grouped_chunks = group_and_deduplicate_chunks(relevant_chunks),
                !.question = IF t.extracted_text_from_image # <<>>
                             THEN @ \o ImageTextHeading
                                    \o t.extracted_text_from_image
                             ELSE @,
                !.pc = "llm", !.llmTry = 1]

(***************************************************************************)
(* Actions                                                                 *)
(***************************************************************************)
harnessVars == <<parseVars, aggVars, fbVars>>

vars == <<parseVars, aggVars, fbVars, serverVars>>

\* a client posts /query
Submit(r) ==
    /\ task[r].pc = "idle"
    /\ \E image \in Images :
         task' = [task EXCEPT ![r] = [@ EXCEPT !.pc = "queued", !.image = image]]
    /\ UNCHANGED <<loop, harnessVars>>

\* the loop starts the request's task: process_multimodal_query up to its
\* first call
Start(r) ==
    /\ task[r].pc = "queued"
    /\ loop = Free
    /\ loop' = r
    /\ task' = [task EXCEPT ![r] =
                  IF @.image # NoImage
                  THEN [@ EXCEPT !.pc = "normalize", !.normCalls = @ + 1]
                  ELSE CallEmbed(@)]
    /\ UNCHANGED harnessVars

\* normalize_image_input on a path or a base64 string: no suspension
NormalizeLocal(r) ==
    /\ task[r].pc = "normalize"
    /\ ~IsUrl(task[r].image)
    /\ \E res \in NormalizeResults(task[r].image) :
         task' = [task EXCEPT ![r] = AfterNormalize(@, res)]
    /\ UNCHANGED <<loop, harnessVars>>

\* normalize_image_input on a URL: `async with session.get(...)` suspends
\* the task and frees the loop
FetchImage(r) ==
    /\ task[r].pc = "normalize"
    /\ IsUrl(task[r].image)
    /\ task' = [task EXCEPT ![r] = [@ EXCEPT !.pc = "fetch"]]
    /\ loop' = Free
    /\ UNCHANGED harnessVars

\* the fetch ends and the loop resumes the task
FetchReply(r) ==
    /\ task[r].pc = "fetch"
    /\ loop = Free
    /\ loop' = r
    /\ \E res \in NormalizeResults(task[r].image) :
         task' = [task EXCEPT ![r] = AfterNormalize(@, res)]
    /\ UNCHANGED harnessVars

\* mistral_client.ocr.process returns or raises; tenacity retries until
\* OcrStop, then extract_text_from_image catches and returns ""
OcrReply(r) ==
    /\ task[r].pc = "ocr"
    /\ \E ok \in BOOLEAN :
         task' = [task EXCEPT ![r] =
                    IF ok THEN AfterOcr(@, OcrText)
                    ELSE IF OcrStop(@.ocrTry)
                         THEN AfterOcr([@ EXCEPT !.ocrFails = @ + 1], <<>>)
                         ELSE [@ EXCEPT !.pc = "ocr_backoff",
                                        !.ocrFails = @ + 1]]
    /\ UNCHANGED <<loop, harnessVars>>

\* tenacity's time.sleep ends: the next attempt
OcrBackoffEnd(r) ==
    /\ task[r].pc = "ocr_backoff"
    /\ task' = [task EXCEPT ![r] =
                  [@ EXCEPT !.pc = "ocr", !.ocrTry = @ + 1, !.ocrCalls = @ + 1]]
    /\ UNCHANGED <<loop, harnessVars>>

\* mistral_client.embeddings.create returns or raises; then, with an image,
\* handle_query calls extract_text_from_image(request.image)
EmbedReply(r) ==
    /\ task[r].pc = "embed"
    /\ \E ok \in BOOLEAN :
         task' = [task EXCEPT ![r] =
                    IF ~ok
                    THEN query_processor_except(@, ServiceError("embedding failed"))
                    ELSE IF @.image # NoImage THEN CallOcr(@, 2, @.image)
                    ELSE CallSearch(@)]
    /\ UNCHANGED <<loop, harnessVars>>

\* qdrant_client.search returns or raises
SearchReply(r) ==
    /\ task[r].pc = "search"
    /\ \/ \E hits \in HitLists :
            task' = [task EXCEPT ![r] = AfterSearch(@, hits)]
       \/ task' = [task EXCEPT ![r] =
                     query_processor_except(@, ServiceError("search failed"))]
    /\ UNCHANGED <<loop, harnessVars>>

\* mistral_client.chat.complete returns or raises; tenacity retries until
\* LlmStop, then generate_llm_answer catches and returns the degraded message
LlmReply(r) ==
    /\ task[r].pc = "llm"
    /\ \/ \E content \in LlmContents :
            task' = [task EXCEPT ![r] =
                       AfterGenerate([@ EXCEPT !.llmReply = Strip(content)],
                                     Strip(content))]
       \/ task' = [task EXCEPT ![r] =
                     IF LlmStop(@.llmTry)
                     THEN AfterGenerate([@ EXCEPT !.llmFails = @ + 1],
                                        DegradedAnswer)
                     ELSE [@ EXCEPT !.pc = "llm_backoff", !.llmFails = @ + 1]]
    /\ UNCHANGED <<loop, harnessVars>>

\* tenacity's time.sleep ends: the next attempt
LlmBackoffEnd(r) ==
    /\ task[r].pc = "llm_backoff"
    /\ task' = [task EXCEPT ![r] = [@ EXCEPT !.pc = "llm", !.llmTry = @ + 1]]
    /\ UNCHANGED <<loop, harnessVars>>

\* the response is sent and the task ends
Close(r) ==
    /\ task[r].pc = "done"
    /\ task' = [task EXCEPT ![r] = NewTask]
    /\ loop' = Free
    /\ UNCHANGED harnessVars

\* the steps of a request's task
TaskStep(r) ==
    \/ Start(r) \/ NormalizeLocal(r) \/ FetchImage(r) \/ FetchReply(r)
    \/ OcrReply(r) \/ OcrBackoffEnd(r) \/ EmbedReply(r) \/ SearchReply(r)
    \/ LlmReply(r) \/ LlmBackoffEnd(r) \/ Close(r)

Next == \E r \in Req : Submit(r) \/ TaskStep(r)

Init == ServerInit /\ ParseIdle /\ AggIdle /\ FbIdle

\* the server handling requests
Spec == Init /\ [][Next]_vars

\* parse_llm_response applied to generated texts
InitParse == ParseInit /\ AggIdle /\ FbIdle /\ ServerIdle

NextParse == AddSource \/ Parse

SpecParse == InitParse /\ [][NextParse]_vars

\* group_and_deduplicate_chunks applied to chunk lists
InitAggregate == AggInit /\ ParseIdle /\ FbIdle /\ ServerIdle

NextAggregate == PadChunks \/ Aggregate

SpecAggregate == InitAggregate /\ [][NextAggregate]_vars

\* fallback_links_from_chunks applied to chunk lists
InitFallback == FbInit /\ ParseIdle /\ AggIdle /\ ServerIdle

NextFallback == Fallback

SpecFallback == InitFallback /\ [][NextFallback]_vars

(***************************************************************************)
(* Properties of the server                                                *)
(***************************************************************************)
Done(r) == task[r].pc = "done"

\* the task waits for a collaborator's response or sleeps between attempts
Waiting(r) ==
    task[r].pc \in {"fetch", "ocr", "ocr_backoff", "embed", "search", "llm",
                    "llm_backoff"}

\* C1: a request, with or without an image, whose retrieval returned no
\* chunk is answered {"No relevant results found.", []}, and neither the
\* generative model nor the parser nor the fallback ran for it.
C1_EmptyRetrievalShortCircuits ==
    \A r \in Req :
        (task[r].retrieved /\ task[r].relevant_chunks = <<>>) =>
            /\ Done(r)
            /\ task[r].response =
                 [status |-> 200,
                  body |-> [answer |-> NoResultsAnswer, links |-> <<>>]]
            /\ task[r].llmTry = 0
            /\ task[r].parsed = NotYet
            /\ ~task[r].fallbackRan

\* a request with an image, its OCR calls made, found nothing
C1_Witness ==
    \E r \in Req :
        /\ task[r].retrieved /\ task[r].relevant_chunks = <<>>
        /\ task[r].image # NoImage /\ task[r].ocrCalls > 0
        /\ Done(r)

\* C2: generation is attempted at most 5 times and never fails the request:
\* k failures (k <= 4) then a success return the success value after k + 1
\* attempts; 5 failures return the degraded message after the 5th.
C2_GenerationRetries ==
    \A r \in Req :
        /\ task[r].llmTry <= 5
        /\ (Done(r) /\ task[r].llmTry > 0) =>
             /\ task[r].response.status = 200
             /\ IF task[r].llmFails < task[r].llmTry
                THEN /\ task[r].llmTry = task[r].llmFails + 1
                     /\ task[r].llmFails <= 4
                     /\ task[r].llm_response = task[r].llmReply
                ELSE /\ task[r].llmTry = 5 /\ task[r].llmFails = 5
                     /\ task[r].llm_response = DegradedAnswer

\* generation failed 4 times and then succeeded
C2_Witness ==
    \E r \in Req :
        /\ Done(r) /\ task[r].llmFails = 4 /\ task[r].llmTry = 5
        /\ task[r].llm_response = task[r].llmReply
        /\ task[r].llmReply # <<>>

\* C3: the fallback runs exactly when the parser returned no citation and
\* replaces links only: the answer returned is the parser's, and citations the
\* parser found are returned unchanged.
C3_FallbackReplacesLinksOnly ==
    \A r \in Req :
        (Done(r) /\ task[r].parsed # NotYet) =>
            /\ task[r].fallbackRan <=> (task[r].parsed.links = <<>>)
            /\ task[r].response.body.answer = task[r].parsed.answer
            /\ task[r].parsed.links # <<>>
                 => task[r].response.body.links = task[r].parsed.links
            /\ task[r].parsed.links = <<>>
                 => task[r].response.body.links
                      = fallback_links_from_chunks(task[r].relevant_chunks)

\* the parser found no citation in the degraded message and the fallback
\* supplied one
C3_Witness ==
    \E r \in Req :
        /\ Done(r) /\ task[r].parsed # NotYet
        /\ task[r].parsed.answer = DegradedAnswer
        /\ task[r].parsed.links = <<>>
        /\ task[r].fallbackRan
        /\ task[r].response.body.links # <<>>
        /\ task[r].response.body.answer = DegradedAnswer

\* C4: a request whose image fails normalization is aborted with a 4xx
\* status, after one normalization attempt and with no OCR, embedding,
\* search or generation call.
C4_BadImageIsClientError ==
    \A r \in Req :
        (Done(r) /\ task[r].normFailed) =>
            /\ task[r].response.status \in 400..499
            /\ task[r].normCalls = 1
            /\ task[r].ocrCalls = 0 /\ task[r].embedCalls = 0
            /\ task[r].searchCalls = 0 /\ task[r].llmTry = 0

\* C6: while a request waits for a collaborator or sleeps between attempts,
\* another request that has been posted can take its next step.
C6_WaitingDoesNotBlockOthers ==
    \A a, b \in Req :
        (a # b /\ Waiting(a) /\ task[b].pc # "idle") => ENABLED TaskStep(b)

\* C9: every chunk search_similar_chunks returns carries its hit's
\* similarity score, and the aggregated chunks are in descending similarity.
C9_ChunksCarrySimilarity ==
    \A r \in Req :
        task[r].retrieved =>
            /\ \A i \in Indices(task[r].relevant_chunks) :
                 task[r].relevant_chunks[i].score = <<task[r].hits[i].score>>
            /\ \A i, j \in Indices(task[r].grouped_chunks) :
                 i < j => task[r].hits[task[r].grouped_chunks[i].id].score
                            >= task[r].hits[task[r].grouped_chunks[j].id].score

\* C10: with an image that normalized, OCR is called only with the normalized
\* image and at most 3 times for the request, and when every OCR attempt
\* failed the text is empty and the request went on to the embedding.
C10_OcrOnceOnNormalizedImage ==
    \A r \in Req :
        (task[r].image # NoImage /\ task[r].normalized_image # "") =>
            /\ task[r].ocrArgs \subseteq {task[r].normalized_image}
            /\ task[r].ocrCalls <= 3
            /\ (Done(r) /\ task[r].ocrFails = task[r].ocrCalls) =>
                 /\ task[r].vision_text = <<>>
                 /\ task[r].extracted_text_from_image = <<>>
                 /\ task[r].embedCalls = 1

\* C11: every citation of a body handle_query returned, whether from the
\* empty-retrieval return, from the parser or from the fallback, has a url
\* that starts with "http".
C11_LinksStartWithHttp ==
    \A r \in Req :
        (Done(r) /\ task[r].response.status = 200) =>
            \A k \in Indices(task[r].response.body.links) :
                StartsWith(task[r].response.body.links[k].url, HttpPrefix)

====
